---- MODULE Spec2Model ----
(***************************************************************************)
(* Model of the PDF merge engine of src/dbcsv/read.go (package pdf):       *)
(* MergeFiles, copyReferencedObjects and mergePageTrees, on top of the     *)
(* object store of github.com/nathankerr/pdf (Get / Add / Save / Close).   *)
(*                                                                         *)
(* The recursion of copyReferencedObjects is modelled by an explicit call  *)
(* stack, one frame per activation; `ret` carries the value a finished     *)
(* activation hands to its caller.  Go's map iteration order is            *)
(* unspecified, so the Dictionary and Stream loops pick any remaining key. *)
(***************************************************************************)
EXTENDS Integers, Sequences, FiniteSets, TLC

VARIABLES
    sources,      \* the files behind the paths given to MergeFiles (input)
    pc,           \* position of MergeFiles
    idx,          \* index of the source the `for _, fn := range sources` loop is at
    handles,      \* per source: "unopened" | "open" | "closed"
    closers,      \* the closers slice: indices of the sources registered for closing
    roots,        \* the roots slice: destination references of the copied catalogs
    mergedRoot,   \* merged.Root (0 is the zero ObjectReference)
    dstObjs,      \* the destination store: slot number -> object
    refs,         \* the translation table of the running copy pass
    stack,        \* call stack of copyReferencedObjects
    ret,          \* value returned by the activation that just finished
    catalogs,     \* the catalogs slice handed to mergePageTrees
    pageTreeRef,  \* mergePageTrees: the reserved reference of the new page-tree root
    kids,         \* mergePageTrees: kids
    pageCount,    \* mergePageTrees: pageCount
    cat,          \* mergePageTrees: index of the catalog the loop is at
    result,       \* how MergeFiles ended: nil, an error, or a panic
    saved,        \* number of times merged.Save() was called
    descents,     \* history: recursive descents through a reference, this pass
    reserved,     \* history: <<source ref, placeholder ref>> per reservation, this pass
    tables,       \* history: the final translation table of each finished pass
    preMerge      \* history: the destination store when mergePageTrees was entered

vars == <<sources, pc, idx, handles, closers, roots, mergedRoot, dstObjs, refs,
          stack, ret, catalogs, pageTreeRef, kids, pageCount, cat, result,
          saved, descents, reserved, tables, preMerge>>

----------------------------------------------------------------------------
(* Bounds *)

MaxSources == 2

\* Cap on the descents of one copy pass; a correct pass never reaches it
\* (every document below has fewer references).
MaxDescents == 5

----------------------------------------------------------------------------
(* Object model: the pdf.Object kinds the code switches on. *)

Ref(n)       == [kind |-> "ObjectReference", id |-> n]
Name(s)      == [kind |-> "Name", name |-> s]
Integer(n)   == [kind |-> "Integer", int |-> n]
String(s)    == [kind |-> "String", str |-> s]
Real(s)      == [kind |-> "Real", real |-> s]
Null         == [kind |-> "Null"]
Dictionary(d) == [kind |-> "Dictionary", dict |-> d]
Array(a)     == [kind |-> "Array", arr |-> a]
Stream(d, p) == [kind |-> "Stream", dict |-> d, payload |-> p]

NoRet == [kind |-> "none"]

IsRef(o)  == o.kind = "ObjectReference"
IsDict(o) == o.kind = "Dictionary"

\* Null is let through like the kinds that cannot carry references
ScalarKindsAndNull == {"Name", "Integer", "String", "Real", "Null"}

\* the kinds of `case pdf.Name, pdf.Integer, pdf.String, pdf.Real`
ScalarKinds == {"Name", "Integer", "String", "Real"}

----------------------------------------------------------------------------
(* The object store of the pdf library, as the code uses it. *)

\* File.Get: the object of a slot, Null when there is none
Get(objs, id) == IF id \in DOMAIN objs THEN objs[id] ELSE Null

\* File.Add of a direct object: a fresh slot, whose number is the reference
AddFresh(objs, o) == Append(objs, o)
FreshRef(objs) == Len(objs) + 1

\* File.Add of an IndirectObject: the slot the reference names is overwritten
AddIndirect(objs, ref, o) == [objs EXCEPT ![ref] = o]

----------------------------------------------------------------------------
(* Input documents.  A document is the object store behind one source path:
   its Root reference and its numbered objects; `openable` is FALSE for a
   path pdf.Open fails on. *)

Doc(objs) == [openable |-> TRUE, root |-> 1, objs |-> objs]

\* a path that cannot be opened
NoFile == [openable |-> FALSE, root |-> 0, objs |-> << >>]

\* catalog -> page tree <-> page (Kids / Parent back-pointer), Count 3
DocCycle ==
    Doc(<< Dictionary([Type |-> Name("Catalog"), Pages |-> Ref(2)]),
           Dictionary([Type |-> Name("Pages"), Kids |-> Array(<<Ref(3)>>),
                       Count |-> Integer(3)]),
           Dictionary([Type |-> Name("Page"), Parent |-> Ref(2)]) >>)

\* a shared Stream (fan-in from catalog and twice from Kids) that refers to
\* itself; the page tree already has a Parent; Count 5
DocShared ==
    Doc(<< Dictionary([Type |-> Name("Catalog"), Pages |-> Ref(2),
                       Outlines |-> Ref(3)]),
           Dictionary([Kids |-> Array(<<Ref(3), String("x"), Ref(3)>>),
                       Count |-> Integer(5), Parent |-> Ref(1)]),
           Stream([Length |-> Integer(4), Self |-> Ref(3)], "data") >>)

\* a loop of length three through a nested Dictionary and an Array
DocLoop ==
    Doc(<< Dictionary([Pages |-> Ref(2)]),
           Dictionary([Count |-> Integer(1),
                       Kids |-> Array(<<Dictionary([Inner |-> Ref(3)])>>)]),
           Array(<<Ref(1), Real("1.5")>>) >>)

\* the catalog is its own page-tree root
DocSelf ==
    Doc(<< Dictionary([Pages |-> Ref(1), Count |-> Integer(2)]) >>)

\* catalog without Pages
DocNoPages ==
    Doc(<< Dictionary([Type |-> Name("Catalog")]) >>)

\* Pages is not a reference
DocPagesInt ==
    Doc(<< Dictionary([Type |-> Name("Catalog"), Pages |-> Integer(2)]) >>)

\* page-tree root without Count
DocNoCount ==
    Doc(<< Dictionary([Pages |-> Ref(2)]),
           Dictionary([Type |-> Name("Pages")]) >>)

\* page-tree root that is not a Dictionary
DocPagesArray ==
    Doc(<< Dictionary([Pages |-> Ref(2)]),
           Array(<<Integer(1)>>) >>)

\* Root is not a Dictionary
DocRootArray ==
    Doc(<< Array(<<Name("Catalog")>>) >>)

\* a Null value inside an object
DocNull ==
    Doc(<< Dictionary([Pages |-> Ref(2)]),
           Dictionary([Count |-> Integer(1), Kids |-> Array(<<Null>>)]) >>)

\* a reference to an object the file does not have (Get gives Null)
DocDangling ==
    Doc(<< Dictionary([Pages |-> Ref(2)]),
           Dictionary([Count |-> Integer(1), Kids |-> Array(<<Ref(4)>>)]) >>)

Docs == {DocCycle, DocShared, DocLoop, DocSelf, DocNoPages, DocPagesInt,
         DocNoCount, DocPagesArray, DocRootArray, DocNull, DocDangling}

Inputs == Docs \cup {NoFile}

SourceLists == UNION {[1..n -> Inputs] : n \in 0..MaxSources}

----------------------------------------------------------------------------
(* Outcomes of MergeFiles *)

Running    == [kind |-> "running", msg |-> ""]
Nil        == [kind |-> "nil", msg |-> ""]
Err(msg)   == [kind |-> "error", msg |-> msg]
Panic(msg) == [kind |-> "panic", msg |-> msg]

Init ==
    /\ sources \in SourceLists
    /\ pc = "create"
    /\ idx = 1
    /\ handles = [i \in 1..Len(sources) |-> "unopened"]
    /\ closers = << >>
    /\ roots = << >>
    /\ mergedRoot = 0
    /\ dstObjs = << >>
    /\ refs = << >>
    /\ stack = << >>
    /\ ret = NoRet
    /\ catalogs = << >>
    /\ pageTreeRef = 0
    /\ kids = << >>
    /\ pageCount = 0
    /\ cat = 1
    /\ result = Running
    /\ saved = 0
    /\ descents = 0
    /\ reserved = << >>
    /\ tables = << >>
    /\ preMerge = << >>

\* variables of MergeFiles outside the copy engine
mergeVars == <<sources, idx, handles, closers, roots, mergedRoot, catalogs,
               pageTreeRef, kids, pageCount, cat, saved, tables, preMerge>>

\* the function is left without the deferred closing
ReturnNoCleanup(r) ==
    /\ pc' = "returned"
    /\ result' = r

\* `return err`: the deferred closing runs next
Return(r) ==
    /\ pc' = "defer"
    /\ result' = r

----------------------------------------------------------------------------
(* copyReferencedObjects *)

Top == stack[Len(stack)]
Pop == SubSeq(stack, 1, Len(stack) - 1)

CallFrame(o)     == [tag |-> "call", obj |-> o]
RefFrame(t, ref) == [tag |-> "ref", t |-> t, ref |-> ref]
IterFrame(o)     == [tag |-> "iter", obj |-> o, todo |-> DOMAIN o.dict, cur |-> ""]
ArrFrame(o)      == [tag |-> "arr", obj |-> o, pos |-> 0]

Calling == pc = "copy" /\ stack # << >> /\ Top.tag = "call"

\* the lookup always misses
KnownNever(table, t) == FALSE

\* `_, ok := refs[t]`
Known(table, t) == t \in DOMAIN table

\* the reservation is not recorded in the table
RegisterNothing(table, t, ref) == table

\* `refs[t] = ref`
Register(table, t, ref) == (t :> ref) @@ table

\* the source reference is handed back untranslated
TranslatedNot(table, t) == Ref(t)

\* `obj = refs[t]`
Translated(table, t) == Ref(table[t])

\* the copy is written to the slot numbered like the source reference
FinalSlotSource(t, ref) == t

\* `ObjectReference: ref` of the IndirectObject that finalizes source reference t
FinalSlot(t, ref) == ref

\* `t[k] = ...` of the Dictionary case, `t.Dictionary[k] = ...` of the Stream case
SetEntry(o, k, v) == [o EXCEPT !.dict[k] = v]

\* `t[i] = ...` of the Array case
SetElem(o, i, v) == [o EXCEPT !.arr[i] = v]

\* an error return unwinds every activation: each caller returns the error as is
CopyFails(msg) ==
    /\ Return(Err(msg))
    /\ stack' = << >>
    /\ ret' = NoRet

\* case pdf.ObjectReference, reference already in the table
CopyRefHit ==
    /\ Calling
    /\ IsRef(Top.obj)
    /\ Known(refs, Top.obj.id)
    /\ stack' = Pop
    /\ ret' = Translated(refs, Top.obj.id)
    /\ UNCHANGED <<mergeVars, pc, result, dstObjs, refs, descents, reserved>>

\* case pdf.ObjectReference, new reference: reserve a slot, register it, then
\* recurse into src.Get(t)
CopyRefReserve ==
    /\ Calling
    /\ IsRef(Top.obj)
    /\ ~Known(refs, Top.obj.id)
    /\ descents < MaxDescents
    /\ \E ok \in BOOLEAN :
        IF ok
        THEN LET t   == Top.obj.id
                 ref == FreshRef(dstObjs)
             IN /\ dstObjs' = AddFresh(dstObjs, Null)
                /\ refs' = Register(refs, t, ref)
                /\ stack' = Pop \o <<RefFrame(t, ref),
                                     CallFrame(Get(sources[idx].objs, t))>>
                /\ descents' = descents + 1
                /\ reserved' = Append(reserved, <<t, ref>>)
                /\ UNCHANGED <<mergeVars, pc, result, ret>>
        ELSE /\ CopyFails("add")
             /\ UNCHANGED <<mergeVars, dstObjs, refs, descents, reserved>>

\* the recursion returned: overwrite the reserved slot with the copied object;
\* merge(newRefs) copies the table onto itself, newRefs being refs
CopyRefFinalize ==
    /\ pc = "copy" /\ stack # << >>
    /\ Top.tag = "ref"
    /\ ret # NoRet
    /\ \E ok \in BOOLEAN :
        IF ok
        THEN /\ dstObjs' = AddIndirect(dstObjs, FinalSlot(Top.t, Top.ref), ret)
             /\ refs' = Register(refs, Top.t, FinalSlot(Top.t, Top.ref))
             /\ stack' = Pop
             /\ ret' = Translated(refs', Top.t)
             /\ UNCHANGED <<mergeVars, pc, result, descents, reserved>>
        ELSE /\ CopyFails("add")
             /\ UNCHANGED <<mergeVars, dstObjs, refs, descents, reserved>>

\* entering the loop over the entries of a Dictionary or of a Stream's Dictionary
IterBegin(kind) ==
    /\ Calling
    /\ Top.obj.kind = kind
    /\ stack' = Pop \o <<IterFrame(Top.obj)>>
    /\ UNCHANGED <<mergeVars, pc, result, dstObjs, refs, ret, descents, reserved>>

\* `for k, v := range t`: the next entry, in any order; recurse into v
IterNext(kind) ==
    /\ pc = "copy" /\ stack # << >>
    /\ Top.tag = "iter" /\ Top.obj.kind = kind
    /\ ret = NoRet
    /\ \E k \in Top.todo :
        stack' = Pop \o <<[Top EXCEPT !.todo = @ \ {k}, !.cur = k],
                          CallFrame(Top.obj.dict[k])>>
    /\ UNCHANGED <<mergeVars, pc, result, dstObjs, refs, ret, descents, reserved>>

\* the recursion returned: assign the copied value to the entry
IterStore(kind) ==
    /\ pc = "copy" /\ stack # << >>
    /\ Top.tag = "iter" /\ Top.obj.kind = kind
    /\ ret # NoRet
    /\ stack' = Pop \o <<[Top EXCEPT !.obj = SetEntry(@, Top.cur, ret)]>>
    /\ ret' = NoRet
    /\ UNCHANGED <<mergeVars, pc, result, dstObjs, refs, descents, reserved>>

\* the loop is over: `obj = t`, return
IterReturn(kind) ==
    /\ pc = "copy" /\ stack # << >>
    /\ Top.tag = "iter" /\ Top.obj.kind = kind
    /\ ret = NoRet
    /\ Top.todo = {}
    /\ stack' = Pop
    /\ ret' = Top.obj
    /\ UNCHANGED <<mergeVars, pc, result, dstObjs, refs, descents, reserved>>

CopyDictBegin  == IterBegin("Dictionary")
CopyDictNext   == IterNext("Dictionary")
CopyDictStore  == IterStore("Dictionary")
CopyDictReturn == IterReturn("Dictionary")

CopyStreamBegin  == IterBegin("Stream")
CopyStreamNext   == IterNext("Stream")
CopyStreamStore  == IterStore("Stream")
CopyStreamReturn == IterReturn("Stream")

\* case pdf.Array
CopyArrayBegin ==
    /\ Calling
    /\ Top.obj.kind = "Array"
    /\ stack' = Pop \o <<ArrFrame(Top.obj)>>
    /\ UNCHANGED <<mergeVars, pc, result, dstObjs, refs, ret, descents, reserved>>

\* `for i, v := range t`: the next element, in index order
CopyArrayNext ==
    /\ pc = "copy" /\ stack # << >>
    /\ Top.tag = "arr"
    /\ ret = NoRet
    /\ Top.pos < Len(Top.obj.arr)
    /\ stack' = Pop \o <<[Top EXCEPT !.pos = @ + 1],
                         CallFrame(Top.obj.arr[Top.pos + 1])>>
    /\ UNCHANGED <<mergeVars, pc, result, dstObjs, refs, ret, descents, reserved>>

CopyArrayStore ==
    /\ pc = "copy" /\ stack # << >>
    /\ Top.tag = "arr"
    /\ ret # NoRet
    /\ stack' = Pop \o <<[Top EXCEPT !.obj = SetElem(@, Top.pos, ret)]>>
    /\ ret' = NoRet
    /\ UNCHANGED <<mergeVars, pc, result, dstObjs, refs, descents, reserved>>

CopyArrayReturn ==
    /\ pc = "copy" /\ stack # << >>
    /\ Top.tag = "arr"
    /\ ret = NoRet
    /\ Top.pos = Len(Top.obj.arr)
    /\ stack' = Pop
    /\ ret' = Top.obj
    /\ UNCHANGED <<mergeVars, pc, result, dstObjs, refs, descents, reserved>>

\* case pdf.Name, pdf.Integer, pdf.String, pdf.Real: returned as is
CopyScalar ==
    /\ Calling
    /\ Top.obj.kind \in ScalarKinds
    /\ stack' = Pop
    /\ ret' = Top.obj
    /\ UNCHANGED <<mergeVars, pc, result, dstObjs, refs, descents, reserved>>

\* default: fmt.Errorf("unhandled %T", obj)
CopyUnhandled ==
    /\ Calling
    /\ Top.obj.kind \notin
         ScalarKinds \cup {"ObjectReference", "Dictionary", "Array", "Stream"}
    /\ CopyFails("unhandled " \o Top.obj.kind)
    /\ UNCHANGED <<mergeVars, dstObjs, refs, descents, reserved>>

CopyStep ==
    \/ CopyRefHit \/ CopyRefReserve \/ CopyRefFinalize
    \/ CopyDictBegin \/ CopyDictNext \/ CopyDictStore \/ CopyDictReturn
    \/ CopyStreamBegin \/ CopyStreamNext \/ CopyStreamStore \/ CopyStreamReturn
    \/ CopyArrayBegin \/ CopyArrayNext \/ CopyArrayStore \/ CopyArrayReturn
    \/ CopyScalar \/ CopyUnhandled

----------------------------------------------------------------------------
(* mergePageTrees *)

\* Parent is set to the zero reference (the root's reference not reserved yet)
SetParentZero(pages, ref) == [pages EXCEPT !.dict = ("Parent" :> Ref(0)) @@ @]

\* the Dictionary is rebuilt from Parent and Count alone
SetParentRebuilt(pages, ref) ==
    [pages EXCEPT !.dict =
        [k \in {"Parent"} \cup (DOMAIN @ \cap {"Count"}) |->
            IF k = "Parent" THEN Ref(ref) ELSE @[k]]]

\* `pages["Parent"] = pageTreeRef`
SetParent(pages, ref) == [pages EXCEPT !.dict = ("Parent" :> Ref(ref)) @@ @]

\* the kid is put in front
PrependKid(ks, pagesRef) == <<Ref(pagesRef)>> \o ks

\* `kids = append(kids, pagesRef)`
AppendKid(ks, pagesRef) == Append(ks, Ref(pagesRef))

\* the kids are counted instead of their pages
AddOne(total, pages) == total + 1

\* `pageCount += pages["Count"].(pdf.Integer)`
AddCount(total, pages) == total + pages.dict["Count"].int

\* the Dictionary of the merged page-tree root
PageTreeRoot(ks, total) ==
    Dictionary([Type |-> Name("Pages"), Kids |-> Array(ks), Count |-> Integer(total)])

\* `x.(pdf.ObjectReference)` / `x.(pdf.Integer)` on a map entry succeeds; a
\* missing key yields nil, on which every type assertion fails
HasEntryOfKind(d, k, kind) == k \in DOMAIN d.dict /\ d.dict[k].kind = kind

\* mergePageTrees up to the loop: reserve the reference of the new root
MergeReserve ==
    /\ pc = "pagetree"
    /\ \E ok \in BOOLEAN :
        IF ok
        THEN /\ pageTreeRef' = FreshRef(dstObjs)
             /\ dstObjs' = AddFresh(dstObjs, Null)
             /\ kids' = << >>
             /\ pageCount' = 0
             /\ cat' = 1
             /\ preMerge' = dstObjs
             /\ pc' = "kids"
             /\ UNCHANGED result
        ELSE /\ Return(Err("add"))
             /\ UNCHANGED <<pageTreeRef, dstObjs, kids, pageCount, cat, preMerge>>
    /\ UNCHANGED <<sources, idx, handles, closers, roots, mergedRoot, refs, stack,
                   ret, catalogs, saved, descents, reserved, tables>>

\* one iteration of `for _, catalog := range catalogs`
MergeKid ==
    /\ pc = "kids"
    /\ cat <= Len(catalogs)
    /\ LET catalog == catalogs[cat] IN
       IF ~HasEntryOfKind(catalog, "Pages", "ObjectReference")
       THEN /\ Return(Panic("Pages"))
            /\ UNCHANGED <<dstObjs, kids, pageCount, cat>>
       ELSE
       LET pagesRef == catalog.dict["Pages"].id
           stored   == Get(dstObjs, pagesRef)
       IN
       IF ~IsDict(stored)
       THEN /\ Return(Panic("Dictionary"))
            /\ kids' = AppendKid(kids, pagesRef)
            /\ UNCHANGED <<dstObjs, pageCount, cat>>
       ELSE
       LET pages == SetParent(stored, pageTreeRef) IN
       \E ok \in BOOLEAN :
           IF ~ok
           THEN /\ Return(Err("add"))
                /\ kids' = AppendKid(kids, pagesRef)
                /\ UNCHANGED <<dstObjs, pageCount, cat>>
           ELSE
           /\ dstObjs' = AddIndirect(dstObjs, pagesRef, pages)
           /\ kids' = AppendKid(kids, pagesRef)
           /\ IF HasEntryOfKind(pages, "Count", "Integer")
              THEN /\ pageCount' = AddCount(pageCount, pages)
                   /\ cat' = cat + 1
                   /\ UNCHANGED <<pc, result>>
              ELSE /\ Return(Panic("Count"))
                   /\ UNCHANGED <<pageCount, cat>>
    /\ UNCHANGED <<sources, idx, handles, closers, roots, mergedRoot, refs, stack,
                   ret, catalogs, pageTreeRef, saved, descents, reserved, tables,
                   preMerge>>

\* after the loop: write the merged page-tree root into the reserved slot
MergeFinal ==
    /\ pc = "kids"
    /\ cat > Len(catalogs)
    /\ \E ok \in BOOLEAN :
        IF ok
        THEN /\ dstObjs' = AddIndirect(dstObjs, pageTreeRef,
                                       PageTreeRoot(kids, pageCount))
             /\ pc' = "newroot"
             /\ UNCHANGED result
        ELSE /\ Return(Err("add"))
             /\ UNCHANGED dstObjs
    /\ UNCHANGED <<sources, idx, handles, closers, roots, mergedRoot, refs, stack,
                   ret, catalogs, pageTreeRef, kids, pageCount, cat, saved,
                   descents, reserved, tables, preMerge>>

----------------------------------------------------------------------------
(* MergeFiles *)

copyVars == <<dstObjs, refs, stack, ret, descents, reserved>>
treeVars == <<catalogs, pageTreeRef, kids, pageCount, cat, preMerge>>

\* the opened file is not registered for closing
RegisterNoCloser(cs, i) == cs

\* `closers = append(closers, file)`
RegisterCloser(cs, i) == Append(cs, i)

\* the deferred function: every registered closer is closed
CloseAll(hs, cs) ==
    [i \in DOMAIN hs |->
        IF \E n \in DOMAIN cs : cs[n] = i THEN "closed" ELSE hs[i]]

\* the new catalog is left without its Type
NewCatalogUntyped(pagesRef) == Dictionary([Pages |-> Ref(pagesRef)])

\* the Dictionary of the new catalog
NewCatalog(pagesRef) ==
    Dictionary([Type |-> Name("Catalog"), Pages |-> Ref(pagesRef)])

\* the table of the previous pass is handed on
PassTableShared(previous) == previous

\* `map[pdf.ObjectReference]pdf.ObjectReference{}`: the table a pass starts
\* with, whatever the table of the previous pass was
PassTable(previous) == << >>

\* pdf.Create(dest); on failure MergeFiles returns before anything is deferred
Create ==
    /\ pc = "create"
    /\ \E ok \in BOOLEAN :
        IF ok
        THEN pc' = "loop" /\ UNCHANGED result
        ELSE pc' = "returned" /\ result' = Err("create")
    /\ UNCHANGED <<sources, idx, handles, closers, roots, mergedRoot, saved,
                   tables, copyVars, treeVars>>

\* loop head: pdf.Open(fn), register the closer, start the copy of file.Root
\* with an empty table
OpenSource ==
    /\ pc = "loop"
    /\ idx <= Len(sources)
    /\ IF sources[idx].openable
       THEN /\ handles' = [handles EXCEPT ![idx] = "open"]
            /\ closers' = RegisterCloser(closers, idx)
            /\ refs' = PassTable(refs)
            /\ stack' = <<CallFrame(Ref(sources[idx].root))>>
            /\ ret' = NoRet
            /\ descents' = 0
            /\ reserved' = << >>
            /\ pc' = "copy"
            /\ UNCHANGED result
       ELSE /\ Return(Err("open"))
            /\ UNCHANGED <<handles, closers, refs, stack, ret, descents, reserved>>
    /\ UNCHANGED <<sources, idx, roots, mergedRoot, dstObjs, saved, tables, treeVars>>

\* the file is closed as soon as it has been copied
ClosedAfterCopy(hs, i) == [hs EXCEPT ![i] = "closed"]

\* the end of the loop body: the file of the source just copied stays open,
\* its closing being left to the deferred function
HandlesAfterCopy(hs, i) == hs

\* copyReferencedObjects returned without error: record the root
CopyDone ==
    /\ pc = "copy"
    /\ stack = << >>
    /\ ret # NoRet
    /\ roots' = Append(roots, ret.id)
    /\ mergedRoot' = ret.id
    /\ tables' = Append(tables, refs)
    /\ idx' = idx + 1
    /\ ret' = NoRet
    /\ pc' = "loop"
    /\ handles' = HandlesAfterCopy(handles, idx)
    /\ UNCHANGED <<sources, closers, dstObjs, refs, stack, result, saved,
                   descents, reserved, treeVars>>

\* `catalogs = append(catalogs, merged.Get(root).(pdf.Dictionary))` for every root
GetCatalogs ==
    /\ pc = "loop"
    /\ idx > Len(sources)
    /\ IF \A n \in DOMAIN roots : IsDict(Get(dstObjs, roots[n]))
       THEN /\ catalogs' = [n \in DOMAIN roots |-> Get(dstObjs, roots[n])]
            /\ pc' = "pagetree"
            /\ UNCHANGED result
       ELSE /\ Return(Panic("Dictionary"))
            /\ UNCHANGED catalogs
    /\ UNCHANGED <<sources, idx, handles, closers, roots, mergedRoot, saved, tables,
                   copyVars, pageTreeRef, kids, pageCount, cat, preMerge>>

\* the error of the Add is not looked at: MergeFiles goes on to Save
AddRootErrorIgnored ==
    /\ pc' = "save"
    /\ result' = result

\* `if err != nil { return err }` after the Add of the new catalog
AddRootFailed == Return(Err("add"))

\* `merged.Root, err = merged.Add(pdf.Dictionary{...})`
NewRoot ==
    /\ pc = "newroot"
    /\ \E ok \in BOOLEAN :
        IF ok
        THEN /\ mergedRoot' = FreshRef(dstObjs)
             /\ dstObjs' = AddFresh(dstObjs, NewCatalog(pageTreeRef))
             /\ pc' = "save"
             /\ UNCHANGED result
        ELSE /\ mergedRoot' = 0
             /\ AddRootFailed
             /\ UNCHANGED dstObjs
    /\ UNCHANGED <<sources, idx, handles, closers, roots, refs, stack, ret, saved,
                   descents, reserved, tables, treeVars>>

\* `return merged.Save()`
Save ==
    /\ pc = "save"
    /\ saved' = saved + 1
    /\ \E ok \in BOOLEAN : Return(IF ok THEN Nil ELSE Err("save"))
    /\ UNCHANGED <<sources, idx, handles, closers, roots, mergedRoot, tables,
                   copyVars, treeVars>>

\* the deferred closing, on return and on panic alike
RunDeferred ==
    /\ pc = "defer"
    /\ handles' = CloseAll(handles, closers)
    /\ pc' = "returned"
    /\ UNCHANGED <<sources, idx, closers, roots, mergedRoot, result, saved, tables,
                   copyVars, treeVars>>

Next ==
    \/ Create \/ OpenSource \/ CopyStep \/ CopyDone \/ GetCatalogs
    \/ MergeReserve \/ MergeKid \/ MergeFinal
    \/ NewRoot \/ Save \/ RunDeferred

Spec == Init /\ [][Next]_vars

\* the scheduler runs MergeFiles to its end: no step waits on anything
FairSpec == Spec /\ WF_vars(Next)

----------------------------------------------------------------------------
(* Vocabulary of the properties *)

RECURSIVE RefsIn(_)
\* the references an object contains, directly or nested
RefsIn(o) ==
    CASE o.kind = "ObjectReference" -> {o.id}
      [] o.kind \in {"Dictionary", "Stream"} ->
            UNION {RefsIn(o.dict[k]) : k \in DOMAIN o.dict}
      [] o.kind = "Array" -> UNION {RefsIn(o.arr[i]) : i \in DOMAIN o.arr}
      [] OTHER -> {}

RECURSIVE Closure(_, _)
\* the references reachable in a store from the references of S
Closure(objs, S) ==
    LET N == S \cup UNION {RefsIn(Get(objs, r)) : r \in S}
    IN IF N = S THEN S ELSE Closure(objs, N)

\* the distinct references reachable from a document's Root
SourceRefs(doc) == Closure(doc.objs, {doc.root})

RECURSIVE Image(_, _)
\* an object with every reference in it, direct or nested, replaced by its T-image
Image(o, T) ==
    CASE o.kind = "ObjectReference" -> Ref(T[o.id])
      [] o.kind \in {"Dictionary", "Stream"} ->
            [o EXCEPT !.dict = [k \in DOMAIN o.dict |-> Image(o.dict[k], T)]]
      [] o.kind = "Array" ->
            [o EXCEPT !.arr = [i \in DOMAIN o.arr |-> Image(o.arr[i], T)]]
      [] OTHER -> o

\* copyReferencedObjects has returned to MergeFiles without error
PassDone == pc = "copy" /\ stack = << >> /\ ret # NoRet

Returned == pc = "returned"
ReturnedNil == pc = "returned" /\ result = Nil

----------------------------------------------------------------------------
(* Properties *)

\* C1: during one copy pass every source reference gets one destination slot:
\* no source reference is reserved twice, no destination slot is reserved for
\* two source references, the table maps each reserved source reference to its
\* slot, and when the pass is done the reserved references are exactly the
\* distinct references reachable from the source's Root.
C1_OneSlotPerReference ==
    pc = "copy" =>
        /\ \A a, b \in DOMAIN reserved :
              (reserved[a][1] = reserved[b][1] \/ reserved[a][2] = reserved[b][2])
                  => a = b
        /\ DOMAIN refs = {reserved[a][1] : a \in DOMAIN reserved}
        /\ \A a \in DOMAIN reserved : refs[reserved[a][1]] = reserved[a][2]
        /\ PassDone => /\ DOMAIN refs = SourceRefs(sources[idx])
                       /\ Len(reserved) = Cardinality(SourceRefs(sources[idx]))

\* a pass over the document with a shared, self-referring Stream is done
C1_Witness ==
    /\ PassDone
    /\ sources[idx] = DocShared
    /\ Len(reserved) = 3

\* C2: a copy pass terminates: it descends through a reference at most once
\* per distinct source reference, cycles included, and whenever a pass is
\* running it eventually is over (by returning to MergeFiles or by failing).
C2_CopyTerminates ==
    /\ [](pc = "copy" => /\ descents = Cardinality(DOMAIN refs)
                         /\ descents <= Cardinality(SourceRefs(sources[idx])))
    /\ [](pc = "copy" => <>(PassDone \/ pc # "copy"))

\* a pass over the loop of three references has descended three times and is done
C2_Witness ==
    /\ PassDone
    /\ sources[idx] = DocLoop
    /\ descents = 3

\* C3: after a successful copy pass with final table T, the destination object
\* at T[r] is the source object at r with every reference replaced by its
\* T-image, for every r of T; the table entry of r is the placeholder reserved
\* for r, before and after r is finalized, and the reference the pass returns
\* is the placeholder of the source's Root.
C3_SameShapeTranslated ==
    /\ pc \in {"loop", "copy", "pagetree"} =>
          \A n \in DOMAIN tables : \A r \in DOMAIN tables[n] :
              /\ tables[n][r] \in DOMAIN dstObjs
              /\ dstObjs[tables[n][r]] = Image(Get(sources[n].objs, r), tables[n])
    /\ PassDone =>
          /\ \A r \in DOMAIN refs :
                dstObjs[refs[r]] = Image(Get(sources[idx].objs, r), refs)
          /\ ret = Ref(reserved[1][2])
    /\ pc = "copy" => \A a \in DOMAIN reserved : refs[reserved[a][1]] = reserved[a][2]

\* the second pass is done, over a document with a cycle, after a first pass
C3_Witness ==
    /\ PassDone
    /\ idx = 2
    /\ sources[1] = DocShared
    /\ sources[2] = DocCycle
    /\ dstObjs[refs[3]].dict["Parent"] = Ref(refs[2])
    /\ dstObjs[refs[2]].dict["Kids"].arr[1] = Ref(refs[3])

\* the reference, in source n, of its page-tree root
SourcePagesRef(n) == Get(sources[n].objs, sources[n].root).dict["Pages"].id

\* the original page-tree root of source n
SourcePages(n) == Get(sources[n].objs, SourcePagesRef(n))

\* the destination reference of the copied page-tree root of source n
CopiedPagesRef(n) == tables[n][SourcePagesRef(n)]

RECURSIVE SumCounts(_)
\* the sum of the Count values of the original page-tree roots of sources 1..n
SumCounts(n) ==
    IF n = 0 THEN 0 ELSE SumCounts(n - 1) + SourcePages(n).dict["Count"].int

\* mergePageTrees has returned without error
TreeMerged == pc \in {"newroot", "save"} \/ result = Nil

\* C4: after MergeFiles returns nil, every reference reachable from the
\* destination's Root names an existing destination slot, and no slot of the
\* destination, reachable or not, still holds the Null placeholder.
C4_NoDanglingNoPlaceholder ==
    ReturnedNil =>
        /\ \A r \in Closure(dstObjs, {mergedRoot}) : r \in DOMAIN dstObjs
        /\ \A r \in DOMAIN dstObjs : dstObjs[r] # Null

\* a merge of two documents with cycles and a shared object returned nil
C4_Witness ==
    /\ ReturnedNil
    /\ sources = <<DocShared, DocLoop>>
    /\ Cardinality(Closure(dstObjs, {mergedRoot})) = 7

\* C5: the Count of the merged page-tree root is the sum of the Count values
\* of the sources' original page-tree roots.
C5_CountIsSum ==
    TreeMerged =>
        Get(dstObjs, pageTreeRef).dict["Count"] = Integer(SumCounts(Len(sources)))

\* sources with Count 3 and Count 5 are merged into a tree with Count 8
C5_Witness ==
    /\ TreeMerged
    /\ sources = <<DocCycle, DocShared>>
    /\ Get(dstObjs, pageTreeRef).dict["Count"] = Integer(8)

\* C6: the Kids of the merged page-tree root are the destination references of
\* the sources' copied page-tree roots, one per source, in the order of the
\* sources.
C6_KidsInSourceOrder ==
    TreeMerged =>
        Get(dstObjs, pageTreeRef).dict["Kids"] =
            Array([n \in 1..Len(sources) |-> Ref(CopiedPagesRef(n))])

\* two different sources are merged: the first kid is the first source's tree
C6_Witness ==
    /\ TreeMerged
    /\ sources = <<DocShared, DocCycle>>
    /\ Len(Get(dstObjs, pageTreeRef).dict["Kids"].arr) = 2
    /\ Get(dstObjs, pageTreeRef).dict["Kids"].arr[1] = Ref(CopiedPagesRef(1))
    /\ CopiedPagesRef(1) < CopiedPagesRef(2)

\* the copied page-tree roots
CopiedPagesRefs == {CopiedPagesRef(n) : n \in 1..Len(sources)}

\* C7: when mergePageTrees has returned, each copied page-tree root has Parent
\* equal to the new root's reference and its other entries as before, in the slot
\* it had; the store has one slot more than before, the new root's, and every
\* other slot is as it was.
C7_ReparentFrame ==
    pc = "newroot" =>
        /\ Len(dstObjs) = Len(preMerge) + 1
        /\ pageTreeRef = Len(preMerge) + 1
        /\ \A p \in CopiedPagesRefs :
              /\ p \in DOMAIN preMerge
              /\ dstObjs[p].kind = preMerge[p].kind
              /\ DOMAIN dstObjs[p].dict = DOMAIN preMerge[p].dict \cup {"Parent"}
              /\ dstObjs[p].dict["Parent"] = Ref(pageTreeRef)
              /\ \A k \in DOMAIN preMerge[p].dict \ {"Parent"} :
                    dstObjs[p].dict[k] = preMerge[p].dict[k]
        /\ \A r \in DOMAIN preMerge \ CopiedPagesRefs : dstObjs[r] = preMerge[r]

\* two page-tree roots were reparented, one of which had another Parent before
C7_Witness ==
    /\ pc = "newroot"
    /\ sources = <<DocShared, DocCycle>>
    /\ preMerge[CopiedPagesRef(1)].dict["Parent"] # Ref(pageTreeRef)
    /\ "Parent" \notin DOMAIN preMerge[CopiedPagesRef(2)].dict
    /\ dstObjs[CopiedPagesRef(2)].dict["Parent"] = Ref(pageTreeRef)

\* C8: when MergeFiles has returned, on whatever path, no source handle is
\* open: every handle that was opened is closed.
C8_HandlesClosed ==
    Returned => \A i \in DOMAIN handles : handles[i] # "open"

\* the open of the second source failed after the first was opened and copied
C8_Witness ==
    /\ Returned
    /\ result = Err("open")
    /\ Len(sources) = 2
    /\ handles[1] = "closed"
    /\ handles[2] = "unopened"

\* mergePageTrees stopped at catalog n because it lacks a Pages reference, or
\* the object at that reference lacks an Integer Count
StructuralDefectAt(n) ==
    /\ pageTreeRef # 0
    /\ n \in DOMAIN catalogs
    /\ \/ ~HasEntryOfKind(catalogs[n], "Pages", "ObjectReference")
       \/ LET pages == Get(dstObjs, catalogs[n].dict["Pages"].id)
          IN ~IsDict(pages) \/ ~HasEntryOfKind(pages, "Count", "Integer")

\* C9: if a source's copied catalog lacks a Pages reference, or the object at
\* it lacks an Integer Count, MergeFiles returns an error and every opened
\* source handle is closed.
C9_StructuralError ==
    (Returned /\ StructuralDefectAt(cat)) =>
        /\ result.kind = "error"
        /\ \A i \in DOMAIN handles : handles[i] # "open"

\* C10: after MergeFiles returns nil, Root is the reference of a Dictionary
\* {Type: Catalog, Pages: p} in a slot added after mergePageTrees, p is the
\* reference mergePageTrees returned and the object at p has Type Pages; Root
\* is no source's copied catalog, though during the loop over the sources Root
\* is the copied catalog of the source copied last.
C10_NewCatalogIsRoot ==
    /\ ReturnedNil =>
          /\ mergedRoot = Len(preMerge) + 2
          /\ mergedRoot = Len(dstObjs)
          /\ dstObjs[mergedRoot] =
                Dictionary([Type |-> Name("Catalog"), Pages |-> Ref(pageTreeRef)])
          /\ dstObjs[pageTreeRef].dict["Type"] = Name("Pages")
          /\ \A n \in DOMAIN roots : mergedRoot # roots[n]
    /\ (pc \in {"loop", "copy"} /\ roots # << >>) => mergedRoot = roots[Len(roots)]

\* a merge of two sources returned nil; Root had been the second copied catalog
C10_Witness ==
    /\ ReturnedNil
    /\ Len(roots) = 2
    /\ mergedRoot > roots[2]
    /\ dstObjs[roots[2]].dict["Pages"] = Ref(CopiedPagesRef(2))

\* the activations of the reference case that wait for the copy of their object
Traversing == {n \in DOMAIN stack : stack[n].tag = "ref"}

\* a call on a reference whose object is being traversed further down the stack
NestedOccurrence ==
    /\ Calling
    /\ IsRef(Top.obj)
    /\ \E n \in Traversing : stack[n].t = Top.obj.id

\* C11: while the object of a source reference r is being traversed, r is a
\* key of the table, mapped to the placeholder reserved for r, which still
\* holds Null, and r is traversed by one activation only; a nested occurrence
\* of r returns that placeholder, with no new descent and no new slot.
C11_RegisteredBeforeTraversal ==
    /\ [](pc = "copy" =>
            /\ \A n \in Traversing :
                  /\ Known(refs, stack[n].t)
                  /\ refs[stack[n].t] = stack[n].ref
                  /\ dstObjs[stack[n].ref] = Null
            /\ \A m, n \in Traversing : stack[m].t = stack[n].t => m = n)
    /\ [][NestedOccurrence =>
            /\ \E n \in Traversing :
                  stack[n].t = Top.obj.id /\ ret' = Ref(stack[n].ref)
            /\ descents' = descents
            /\ dstObjs' = dstObjs
            /\ refs' = refs]_vars

\* the catalog that is its own page-tree root: its Pages entry is reached
\* while the catalog is being traversed
C11_Witness ==
    /\ NestedOccurrence
    /\ sources[idx] = DocSelf
    /\ Top.obj = Ref(1)
    /\ Len(stack) = 3

\* the destination slots of the copies made by the finished passes
EarlierSlots == UNION {{tables[n][r] : r \in DOMAIN tables[n]} : n \in DOMAIN tables}

\* slot s differs between the two dictionaries in its Parent entry only
OnlyParentSet(old, new) ==
    /\ old.kind = "Dictionary" /\ new.kind = "Dictionary"
    /\ DOMAIN new.dict = DOMAIN old.dict \cup {"Parent"}
    /\ \A k \in DOMAIN old.dict \ {"Parent"} : new.dict[k] = old.dict[k]

\* C12: the destination only grows, and no step of a copy pass writes a slot
\* made by an earlier pass: a pass writes existing slots only by overwriting a
\* Null placeholder it reserved itself.  The other writes of existing slots
\* are those of mergePageTrees: the Parent of a source's copied page-tree
\* root, and the placeholder of the new root.
C12_EarlierSlotsUntouched ==
    [][/\ Len(dstObjs') >= Len(dstObjs)
       /\ pc = "copy" => \A s \in EarlierSlots : dstObjs'[s] = dstObjs[s]
       /\ \A s \in DOMAIN dstObjs :
            dstObjs'[s] # dstObjs[s] =>
               \/ /\ pc = "copy"
                  /\ \E a \in DOMAIN reserved : reserved[a][2] = s
                  /\ dstObjs[s] = Null
               \/ /\ pc = "kids"
                  /\ s = pageTreeRef
                  /\ dstObjs[s] = Null
               \/ /\ pc = "kids"
                  /\ s = CopiedPagesRef(cat)
                  /\ OnlyParentSet(dstObjs[s], dstObjs'[s])]_vars

\* the same document was copied twice; the second pass is done and has
\* overwritten its placeholders
C12_Witness ==
    /\ PassDone
    /\ idx = 2
    /\ sources = <<DocCycle, DocCycle>>
    /\ EarlierSlots = {1, 2, 3}
    /\ \A a \in DOMAIN reserved : dstObjs[reserved[a][2]] # Null

\* the destination references a table maps to
Slots(T) == {T[r] : r \in DOMAIN T}

\* C13: every pass starts with an empty table, the destination references of
\* the passes of two different sources are disjoint, also when the sources
\* use the same reference ids or are the same document, and after the passes
\* the references inside the copy of a source all point into the copy of that
\* same source.
C13_PassesDisjoint ==
    /\ \A m, n \in DOMAIN tables :
          m # n => Slots(tables[m]) \cap Slots(tables[n]) = {}
    /\ pc = "copy" =>
          /\ descents = 0 => refs = << >>
          /\ \A n \in DOMAIN tables : Slots(tables[n]) \cap Slots(refs) = {}
    /\ pc \in {"loop", "copy", "pagetree"} =>
          \A n \in DOMAIN tables : \A r \in DOMAIN tables[n] :
              RefsIn(dstObjs[tables[n][r]]) \subseteq Slots(tables[n])

\* one document given twice: its reference 2 has two different copies
C13_Witness ==
    /\ pc = "loop"
    /\ Len(tables) = 2
    /\ sources[1] = sources[2]
    /\ sources[1] = DocShared
    /\ tables[1][2] # tables[2][2]
    /\ DOMAIN tables[1] = DOMAIN tables[2]

\* the successor positions of each position of MergeFiles on the way to success
Successors(p) ==
    CASE p = "create"   -> {"loop"}
      [] p = "loop"     -> {"copy", "pagetree"}
      [] p = "copy"     -> {"copy", "loop"}
      [] p = "pagetree" -> {"kids"}
      [] p = "kids"     -> {"kids", "newroot"}
      [] p = "newroot"  -> {"save"}
      [] OTHER          -> {}

\* a step of MergeFiles keeps the order of the orchestrator's states
OrderedStep ==
    /\ pc = "defer" =>
          /\ pc' = "returned"
          /\ \A i \in DOMAIN handles : handles'[i] # "open"
          /\ UNCHANGED <<dstObjs, saved, result, roots, mergedRoot>>
    /\ pc = "returned" => UNCHANGED vars
    /\ pc = "save" => pc' = "defer" /\ result' \in {Nil, Err("save")}
    /\ pc \notin {"defer", "returned", "save"} =>
          \/ /\ result' = Running
             /\ pc' \in Successors(pc)
          \/ /\ result'.kind \in {"error", "panic"}
             /\ pc' = IF pc = "create" THEN "returned" ELSE "defer"
             /\ saved' = saved
             /\ Len(roots') = Len(roots)
    /\ (pc = "loop" /\ pc' = "copy") =>
          /\ idx' = idx
          /\ handles[idx] = "unopened" /\ handles'[idx] = "open"
    /\ (pc = "copy" /\ pc' = "loop") =>
          /\ idx' = idx + 1
          /\ roots' = Append(roots, ret.id)
    /\ (pc = "loop" /\ pc' = "pagetree") =>
          /\ idx = Len(sources) + 1
          /\ Len(roots) = Len(sources)

\* each source is opened right before it is copied: the sources before the
\* loop index are open and copied, those after it are not opened yet
OpenedOneByOne ==
    /\ pc \in {"loop", "copy"} =>
          /\ Len(roots) = idx - 1
          /\ \A i \in DOMAIN handles :
                handles[i] = IF i < idx \/ (i = idx /\ pc = "copy")
                             THEN "open" ELSE "unopened"
    /\ pc \in {"pagetree", "kids", "newroot", "save"} =>
          /\ Len(roots) = Len(sources)
          /\ \A i \in DOMAIN handles : handles[i] = "open"

\* every source path is opened before the first source is copied
AllOpenedBeforeCopy ==
    pc = "copy" => \A i \in DOMAIN handles : handles[i] = "open"

\* C14 as stated: the states follow one another in the order created,
\* sources-opened, per-source-copied, page-trees-merged, catalog-installed,
\* saved, a failure leading directly to the cleanup and the end, and all
\* sources are opened before the first one is copied.
C14_AllOpenedThenCopied ==
    /\ [][OrderedStep]_vars
    /\ []AllOpenedBeforeCopy

\* C14 amended: the same order of states and the same handling of failures,
\* but each source is opened right before its own copy, after the sources
\* before it have been opened and copied.
C14_OpenedAndCopiedInTurn ==
    /\ [][OrderedStep]_vars
    /\ []OpenedOneByOne

\* the second source has just been opened, the first is copied already
C14_Witness ==
    /\ pc = "copy"
    /\ idx = 2
    /\ descents = 0
    /\ Len(roots) = 1
    /\ handles = <<"open", "open">>
    /\ dstObjs # << >>

\* C15: a source handle is closed only by the last step of MergeFiles: when a
\* handle is closed MergeFiles has returned, so no source is read and no
\* destination slot is written afterwards; the step that closes handles comes
\* after Save has returned, or after the step that failed, and leaves the
\* destination as it is.
C15_ClosedLast ==
    /\ [](\A i \in DOMAIN handles :
            handles[i] = "closed" => (Returned /\ stack = << >>))
    /\ [][(\E i \in DOMAIN handles : handles[i] # "closed" /\ handles'[i] = "closed")
            => /\ pc = "defer"
               /\ result # Running
               /\ result = Nil => saved = 1
               /\ result.kind # "nil" => saved = 0 \/ result = Err("save")
               /\ dstObjs' = dstObjs
               /\ pc' = "returned"]_vars
    /\ [][Returned => UNCHANGED vars]_vars

\* after a successful merge of two sources both handles are closed
C15_Witness ==
    /\ ReturnedNil
    /\ saved = 1
    /\ handles = <<"closed", "closed">>
    /\ Len(roots) = 2

\* C16: Save is called at most once, and only from the position after the new
\* catalog was added and Root set to it, with no failure before it; a merge
\* that returns nil has saved once, a merge that failed before Save has not
\* saved, and after Save no destination slot and not Root is written.
C16_SavedOnceAtTheEnd ==
    /\ [](saved <= 1)
    /\ [](saved = 1 =>
            /\ pc \in {"defer", "returned"}
            /\ result \in {Nil, Err("save")}
            /\ mergedRoot = Len(dstObjs)
            /\ Get(dstObjs, mergedRoot) =
                  Dictionary([Type |-> Name("Catalog"), Pages |-> Ref(pageTreeRef)]))
    /\ [](ReturnedNil => saved = 1)
    /\ []((Returned /\ result # Nil /\ result # Err("save")) => saved = 0)
    /\ [][saved' # saved =>
            /\ pc = "save"
            /\ result = Running
            /\ saved = 0 /\ saved' = 1]_vars
    /\ [][saved = 1 => (dstObjs' = dstObjs /\ mergedRoot' = mergedRoot)]_vars

\* Save has just returned nil for a merge of one source; the closing is next
C16_Witness ==
    /\ pc = "defer"
    /\ result = Nil
    /\ saved = 1
    /\ sources = <<DocLoop>>
    /\ handles = <<"open">>

\* the kinds copyReferencedObjects is said to accept
AcceptedKinds == {"ObjectReference", "Dictionary", "Array", "Stream",
                  "Name", "Integer", "String", "Real"}

RECURSIVE OtherKinds(_)
\* the kinds outside AcceptedKinds that occur in an object, itself included
OtherKinds(o) ==
    ({o.kind} \ AcceptedKinds) \cup
    CASE o.kind \in {"Dictionary", "Stream"} ->
            UNION {OtherKinds(o.dict[k]) : k \in DOMAIN o.dict}
      [] o.kind = "Array" -> UNION {OtherKinds(o.arr[i]) : i \in DOMAIN o.arr}
      [] OTHER -> {}

\* the kinds outside AcceptedKinds a traversal from the document's Root can reach
ReachableOtherKinds(doc) ==
    UNION {OtherKinds(Get(doc.objs, r)) : r \in SourceRefs(doc)}

\* MergeFiles is ending because the copy pass of source idx returned an error
CopyFailed ==
    /\ pc \in {"defer", "returned"}
    /\ idx \in DOMAIN sources
    /\ handles[idx] # "unopened"

\* C17: a copy pass returns without error only if no object of another kind
\* than ObjectReference, Dictionary, Array, Stream, Name, Integer, String and
\* Real is reachable in the source; it fails only with the error of a failed
\* Add or with the unhandled-kind error, which names a reachable kind outside
\* those eight (Null for a Null value or a missing object); a Name, Integer,
\* String or Real is returned as it is.
C17_UnhandledKindFails ==
    /\ [](PassDone => ReachableOtherKinds(sources[idx]) = {})
    /\ [](CopyFailed =>
            \/ result = Err("add")
            \/ \E k \in ReachableOtherKinds(sources[idx]) :
                  result = Err("unhandled " \o k))
    /\ [](result.kind = "error" /\ result.msg \notin {"create", "open", "add", "save"}
            => CopyFailed)
    /\ [][(Calling /\ Top.obj.kind \in {"Name", "Integer", "String", "Real"}) =>
            /\ ret' = Top.obj
            /\ result' = Running
            /\ dstObjs' = dstObjs]_vars

\* a Null value in the second source made the whole merge fail
C17_Witness ==
    /\ Returned
    /\ result = Err("unhandled Null")
    /\ idx = 2
    /\ sources[2] = DocNull
    /\ saved = 0

====
